---- MODULE Spec2Model ----
(***************************************************************************)
(* Model of easybuild/easyblocks/c/condaenv.py: the EB_CondaEnv easyblock. *)
(* One install is one pass of the host's lifecycle over the easyblock:     *)
(* extract_step, configure_step, build_step, install_step.  install_step   *)
(* calls initialize_conda_env, install_conda_env and post_install_step.    *)
(* Every external command that is invoked is appended to the history       *)
(* variable cmds together with the process environment and the state of    *)
(* the install directory at the moment of the invocation.                  *)
(***************************************************************************)
EXTENDS Integers, Sequences, FiniteSets, TLC

VARIABLES
    cfg,        \* self.cfg: the keys 'environment' and 'post_install_cmd'
    installdir, \* self.installdir
    src,        \* self.src: the list of source records
    si,         \* position of the for loop of extract_step in self.src (1-based)
    bfiles,     \* files of the build directory: full path -> permission bits
    idir,       \* the install directory on disk: absent, empty, files, populated, partial
    environ,    \* os.environ, restricted to PATH, CONDA_ENV, CONDA_DEFAULT_ENV
    cmds,       \* history: the external commands invoked so far, in order
    pc,         \* the lifecycle position of the install
    postEntry,  \* history: environment and number of commands at entry of post_install_step
    init,       \* history: the state the install started from
    err,        \* the call that raised the error that ended the install, or None
    lastGuess   \* the values returned by make_module_req_guess: <<>> before the first call, then the last one

vars == <<cfg, installdir, src, si, bfiles, idir, environ, cmds, pc, postEntry, init, err, lastGuess>>

-----------------------------------------------------------------------------
(* Bounds and input pools *)

MaxSrc == 2

\* Python's None, and an environment variable that is not set
None == "<None>"

Unset == "<unset>"

builddir == "/build"

InstallDirs == {"/opt/env", "/sw/conda"}

Environments == {None, "", "environment.yml"}

PostInstallCmds == {None, "", "pip install numpy"}

InitialPaths == {Unset, "/usr/bin", "/opt/env/bin:/usr/bin"}

InitialCondaEnvs == {Unset, "/old/env"}

InitialInstallDirStates == {"absent", "empty", "files"}

\* source files on disk that shutil.copy2 can read
ReadablePaths == {[dir |-> "/dl", base |-> "install.sh"], [dir |-> "/dl", base |-> "v1.tar"]}

SourcePool ==
    { [path |-> [dir |-> "/dl", base |-> "install.sh"], name |-> "install.sh", finalpath |-> "/dl"],
      [path |-> [dir |-> "/dl", base |-> "missing.sh"], name |-> "missing.sh", finalpath |-> "/dl"],
      [path |-> [dir |-> "/dl", base |-> "v1.tar"], name |-> "renamed.tar", finalpath |-> "/dl"] }

SourceLists == UNION { [1..n -> SourcePool] : n \in 0..MaxSrc }

ExitCodes == {0, 1}

\* file modes: what a downloaded source carries, and stat.S_IRWXU (0700)
SourceMode == "0644"
S_IRWXU == "0700"

-----------------------------------------------------------------------------
(* Helpers of the Python runtime and of the host framework *)

\* truth value of a configuration value: None and the empty string are false
Truthy(v) == v # None /\ v # ""

\* "{}".format(v)
Format(v) == IF v = None THEN "None" ELSE v

\* os.path.join(a, b) for a relative b
join(a, b) == a \o "/" \o b

\* easybuild.tools.run.run_cmd raises EasyBuildError on a non-zero exit code
\* when log_ok or log_all asks for it
run_cmd_raises(ec, log_ok, log_all) == ec # 0 /\ (log_ok \/ log_all)

\* easybuild.tools.filetools.rmtree2: the directory is gone afterwards;
\* absence is not an error
rmtree2(d) == "absent"

\* the record of one invocation of an external command
Invocation(site, cmd, ec) ==
    [site |-> site, cmd |-> cmd, ec |-> ec, environ |-> environ, idir |-> idir]

-----------------------------------------------------------------------------
(* The easyblock *)

\* the commands of the easyblock
conda_config_cmd == "conda config --add create_default_packages setuptools"

\* variant: the two arguments of the format call in the wrong order
conda_env_create_cmd_swapped(c, d) ==
    "conda env create -f " \o Format(d) \o " -p " \o Format(c.environment)

conda_env_create_cmd(c, d) ==
    "conda env create -f " \o Format(c.environment) \o " -p " \o Format(d)

\* variant: CONDA_DEFAULT_ENV is left as it was
set_conda_env_no_default(e, d) ==
    [e EXCEPT !["PATH"] = Format(d) \o "/bin" \o ":" \o e["PATH"],
              !["CONDA_ENV"] = d]

\* variant: the bin directory is appended to PATH
set_conda_env_appends(e, d) ==
    [e EXCEPT !["PATH"] = e["PATH"] \o ":" \o Format(d) \o "/bin",
              !["CONDA_ENV"] = d,
              !["CONDA_DEFAULT_ENV"] = d]

\* set_conda_env: the environment after the three env.setvar calls
\* (only called with PATH set: myEnv["PATH"] raises KeyError otherwise)
set_conda_env(e, d) ==
    [e EXCEPT !["PATH"] = Format(d) \o "/bin" \o ":" \o e["PATH"],
              !["CONDA_ENV"] = d,
              !["CONDA_DEFAULT_ENV"] = d]

\* variant: lib32 is missing from the list comprehension
make_module_req_guess_no_lib32 ==
    [PATH |-> <<"bin", "sbin">>,
     MANPATH |-> <<"man", join("share", "man")>>,
     PKG_CONFIG_PATH |-> [i \in 1..3 |-> join(<<"lib", "lib64", "share">>[i], "pkgconfig")]]

make_module_req_guess ==
    [PATH |-> <<"bin", "sbin">>,
     MANPATH |-> <<"man", join("share", "man")>>,
     PKG_CONFIG_PATH |-> [i \in 1..4 |-> join(<<"lib", "lib32", "lib64", "share">>[i], "pkgconfig")]]

Init ==
    /\ cfg \in [environment : Environments, post_install_cmd : PostInstallCmds]
    /\ installdir \in InstallDirs
    /\ src \in SourceLists
    /\ si = 1
    /\ bfiles = [f \in {} |-> SourceMode]
    /\ idir \in InitialInstallDirStates
    /\ \E p \in InitialPaths, c \in InitialCondaEnvs :
          environ = [PATH |-> p, CONDA_ENV |-> c, CONDA_DEFAULT_ENV |-> c]
    /\ cmds = <<>>
    /\ pc = "extract_step"
    /\ postEntry = [entered |-> FALSE, environ |-> environ, ncmds |-> 0]
    /\ init = [environ |-> environ, idir |-> idir, src |-> src]
    /\ err = None
    /\ lastGuess = <<>>

\* variant: self.src[0] is accessed without the test of self.src
extract_step_no_guard ==
    /\ pc = "extract_step"
    /\ IF Len(src) = 0
       THEN /\ pc' = "error"
            /\ err' = "IndexError"
            /\ UNCHANGED src
       ELSE /\ src' = [src EXCEPT ![1].finalpath = builddir]
            /\ pc' = "extract_copy"
            /\ UNCHANGED err
    /\ UNCHANGED <<cfg, installdir, si, bfiles, idir, environ, cmds, postEntry, init, lastGuess>>

\* extract_step, up to the for loop: nothing to do without sources
extract_step ==
    /\ pc = "extract_step"
    /\ IF Len(src) = 0
       THEN /\ pc' = "configure_step"
            /\ UNCHANGED src
       ELSE /\ src' = [src EXCEPT ![1].finalpath = builddir]
            /\ pc' = "extract_copy"
    /\ UNCHANGED <<cfg, installdir, si, bfiles, idir, environ, cmds, postEntry, init, err, lastGuess>>

\* variant: a failed copy or chmod is noted and the loop goes on
extract_copy_continues ==
    /\ pc = "extract_copy"
    /\ LET source == src[si]
           dst == join(builddir, source.name)
           copied == join(builddir, source.path.base)
           afterCopy == [f \in DOMAIN bfiles \cup {copied} |->
                            IF f = copied THEN SourceMode ELSE bfiles[f]]
       IN  /\ IF source.path \notin ReadablePaths
              THEN err' = "copy2" /\ UNCHANGED bfiles
              ELSE IF dst \notin DOMAIN afterCopy
              THEN err' = "chmod" /\ bfiles' = afterCopy
              ELSE bfiles' = [afterCopy EXCEPT ![dst] = S_IRWXU] /\ UNCHANGED err
           /\ si' = si + 1
           /\ pc' = IF si = Len(src) THEN "configure_step" ELSE "extract_copy"
    /\ UNCHANGED <<cfg, installdir, src, idir, environ, cmds, postEntry, init, lastGuess>>

\* one iteration of the for loop of extract_step
extract_copy ==
    /\ pc = "extract_copy"
    /\ LET source == src[si]
           dst == join(builddir, source.name)
           copied == join(builddir, source.path.base)
           afterCopy == [f \in DOMAIN bfiles \cup {copied} |->
                            IF f = copied THEN SourceMode ELSE bfiles[f]]
       IN  IF source.path \notin ReadablePaths
           THEN \* shutil.copy2 raises IOError
                /\ pc' = "error"
                /\ err' = "copy2"
                /\ UNCHANGED <<bfiles, si>>
           ELSE IF dst \notin DOMAIN afterCopy
           THEN \* os.chmod raises OSError
                /\ bfiles' = afterCopy
                /\ pc' = "error"
                /\ err' = "chmod"
                /\ UNCHANGED si
           ELSE /\ bfiles' = [afterCopy EXCEPT ![dst] = S_IRWXU]
                /\ si' = si + 1
                /\ pc' = IF si = Len(src) THEN "configure_step" ELSE "extract_copy"
                /\ UNCHANGED err
    /\ UNCHANGED <<cfg, installdir, src, idir, environ, cmds, postEntry, init, lastGuess>>

configure_step ==
    /\ pc = "configure_step"
    /\ pc' = "build_step"
    /\ UNCHANGED <<cfg, installdir, src, si, bfiles, idir, environ, cmds, postEntry, init, err, lastGuess>>

build_step ==
    /\ pc = "build_step"
    /\ pc' = "install_step"
    /\ UNCHANGED <<cfg, installdir, src, si, bfiles, idir, environ, cmds, postEntry, init, err, lastGuess>>

\* install_step: entry; its three calls follow
install_step ==
    /\ pc = "install_step"
    /\ pc' = "initialize_conda_env"
    /\ UNCHANGED <<cfg, installdir, src, si, bfiles, idir, environ, cmds, postEntry, init, err, lastGuess>>

\* variant: the install directory is not removed
initialize_conda_env_keeps_dir ==
    /\ pc = "initialize_conda_env"
    /\ \E ec \in ExitCodes :
          /\ cmds' = Append(cmds, Invocation("initialize_conda_env", conda_config_cmd, ec))
          /\ IF run_cmd_raises(ec, TRUE, TRUE)
             THEN pc' = "error" /\ err' = "run_cmd"
             ELSE pc' = "install_conda_env" /\ UNCHANGED err
    /\ UNCHANGED <<cfg, installdir, src, si, bfiles, idir, environ, postEntry, init, lastGuess>>

\* initialize_conda_env: rmtree2, then conda config
initialize_conda_env ==
    /\ pc = "initialize_conda_env"
    /\ \/ \* rmtree2 cannot remove an existing directory
          /\ idir # "absent"
          /\ pc' = "error"
          /\ err' = "rmtree2"
          /\ UNCHANGED <<idir, cmds>>
       \/ \E ec \in ExitCodes :
             /\ idir' = rmtree2(installdir)
             /\ cmds' = Append(cmds, [Invocation("initialize_conda_env", conda_config_cmd, ec)
                                         EXCEPT !.idir = idir'])
             /\ IF run_cmd_raises(ec, TRUE, TRUE)
                THEN pc' = "error" /\ err' = "run_cmd"
                ELSE pc' = "install_conda_env" /\ UNCHANGED err
    /\ UNCHANGED <<cfg, installdir, src, si, bfiles, environ, postEntry, init, lastGuess>>

\* variant: the result of run_cmd is not looked at and nothing is raised
install_conda_env_ignores_exit ==
    /\ pc = "install_conda_env"
    /\ IF environ["PATH"] = Unset
       THEN /\ pc' = "error"
            /\ err' = "KeyError"
            /\ UNCHANGED <<environ, cmds, idir>>
       ELSE \E ec \in ExitCodes :
            /\ environ' = set_conda_env(environ, installdir)
            /\ cmds' = Append(cmds, [Invocation("install_conda_env",
                                                conda_env_create_cmd(cfg, installdir), ec)
                                        EXCEPT !.environ = environ'])
            /\ pc' = "post_install_step"
            /\ idir' = IF ec = 0 THEN "populated" ELSE "partial"
            /\ UNCHANGED err
    /\ UNCHANGED <<cfg, installdir, src, si, bfiles, postEntry, init, lastGuess>>

\* install_conda_env: set_conda_env, then conda env create
install_conda_env ==
    /\ pc = "install_conda_env"
    /\ IF environ["PATH"] = Unset
       THEN \* KeyError in set_conda_env
            /\ pc' = "error"
            /\ err' = "KeyError"
            /\ UNCHANGED <<environ, cmds, idir>>
       ELSE \E ec \in ExitCodes :
            /\ environ' = set_conda_env(environ, installdir)
            /\ cmds' = Append(cmds, [Invocation("install_conda_env",
                                                conda_env_create_cmd(cfg, installdir), ec)
                                        EXCEPT !.environ = environ'])
            /\ IF run_cmd_raises(ec, TRUE, TRUE)
               THEN /\ pc' = "error"
                    /\ err' = "run_cmd"
                    /\ idir' \in {"absent", "partial"}
               ELSE /\ pc' = "post_install_step"
                    /\ idir' = "populated"
                    /\ UNCHANGED err
    /\ UNCHANGED <<cfg, installdir, src, si, bfiles, postEntry, init, lastGuess>>

\* variant: set_conda_env is called before the test of post_install_cmd
post_install_step_sets_env_first ==
    /\ pc = "post_install_step"
    /\ postEntry' = [entered |-> TRUE, environ |-> environ, ncmds |-> Len(cmds)]
    /\ environ' = set_conda_env(environ, installdir)
    /\ IF ~Truthy(cfg.post_install_cmd)
       THEN /\ pc' = "done"
            /\ UNCHANGED <<cmds, err>>
       ELSE \E ec \in ExitCodes :
            /\ cmds' = Append(cmds, [Invocation("post_install_step", cfg.post_install_cmd, ec)
                                        EXCEPT !.environ = environ'])
            /\ IF run_cmd_raises(ec, TRUE, FALSE)
               THEN pc' = "error" /\ err' = "run_cmd"
               ELSE pc' = "done" /\ UNCHANGED err
    /\ UNCHANGED <<cfg, installdir, src, si, bfiles, idir, init, lastGuess>>

\* post_install_step: nothing without a command, else set_conda_env and the command
post_install_step ==
    /\ pc = "post_install_step"
    /\ postEntry' = [entered |-> TRUE, environ |-> environ, ncmds |-> Len(cmds)]
    /\ IF ~Truthy(cfg.post_install_cmd)
       THEN /\ pc' = "done"
            /\ UNCHANGED <<environ, cmds, err>>
       ELSE \* PATH is set here: install_conda_env has set it before
            \E ec \in ExitCodes :
            /\ environ' = set_conda_env(environ, installdir)
            /\ cmds' = Append(cmds, [Invocation("post_install_step", cfg.post_install_cmd, ec)
                                        EXCEPT !.environ = environ'])
            /\ IF run_cmd_raises(ec, TRUE, FALSE)
               THEN pc' = "error" /\ err' = "run_cmd"
               ELSE pc' = "done" /\ UNCHANGED err
    /\ UNCHANGED <<cfg, installdir, src, si, bfiles, idir, init, lastGuess>>

\* a call of make_module_req_guess by the module generator, at any time
module_req_guess ==
    /\ lastGuess' = <<make_module_req_guess>>
    /\ UNCHANGED <<cfg, installdir, src, si, bfiles, idir, environ, cmds, pc, postEntry, init, err>>

Next ==
    \/ extract_step
    \/ extract_copy
    \/ configure_step
    \/ build_step
    \/ install_step
    \/ initialize_conda_env
    \/ install_conda_env
    \/ post_install_step
    \/ module_req_guess

Spec == Init /\ [][Next]_vars

-----------------------------------------------------------------------------
(* Properties *)

Missing(v) == ~Truthy(v)

Sites(site) == {i \in 1..Len(cmds) : cmds[i].site = site}

BinPrefix == installdir \o "/bin:"

\* the environment carries the overlay of this install
CarriesOverlay(e) ==
    /\ e.CONDA_ENV = installdir
    /\ e.CONDA_DEFAULT_ENV = installdir
    /\ e.PATH \in {BinPrefix \o init.environ.PATH, BinPrefix \o BinPrefix \o init.environ.PATH}

PreInstall == {"extract_step", "extract_copy", "configure_step", "build_step", "install_step"}

\* C1: with the 'environment' key missing (None or empty) the install fails
\* before any external command is invoked: no command is ever run and the
\* install never completes.
C1_FailsBeforeAnyCommand ==
    Missing(cfg.environment) => (cmds = <<>> /\ pc # "done")

\* C2: whenever conda env create is invoked the install directory is absent or
\* empty, whatever it was before install_step (files, empty, absent), and an
\* absent install directory does not make the removal fail.
C2_InstallDirClearedBeforeCreate ==
    /\ \A i \in Sites("install_conda_env") : cmds[i].idir \in {"absent", "empty"}
    /\ init.idir = "absent" => err # "rmtree2"

C2_Witness ==
    /\ init.idir = "files"
    /\ Sites("install_conda_env") # {}

\* C3: install_step is fail-stop without retries: only the last command
\* invoked can have exited non-zero, a non-zero exit ends the install in an
\* error, no call site runs its command twice, and the install completes
\* only if every command exited zero.
C3_FailStopNoRetry ==
    /\ \A i \in 1..(Len(cmds) - 1) : cmds[i].ec = 0
    /\ (cmds # <<>> /\ cmds[Len(cmds)].ec # 0) => (pc = "error" /\ err = "run_cmd")
    /\ \A i, j \in 1..Len(cmds) : cmds[i].site = cmds[j].site => i = j
    /\ pc = "done" => \A i \in 1..Len(cmds) : cmds[i].ec = 0

C3_Witness ==
    /\ Truthy(cfg.post_install_cmd)
    /\ Len(cmds) = 2
    /\ cmds[2].ec # 0
    /\ pc = "error"

\* C4: when a copy or a chmod of extract_step fails, the install ends in an
\* error, the sources after the failing one are not copied, and nothing of
\* the later steps happens: the install directory, the command history and
\* the process environment are as they were at the start.
C4_ExtractFailureStopsInstall ==
    err \in {"copy2", "chmod"} =>
        /\ pc = "error"
        /\ cmds = <<>>
        /\ idir = init.idir
        /\ environ = init.environ
        /\ ~postEntry.entered
        /\ DOMAIN bfiles \subseteq
              {builddir \o "/" \o src[j].path.base :
                  j \in 1..(IF err = "copy2" THEN si - 1 ELSE si)}

C4_Witness ==
    /\ err = "copy2"
    /\ Len(src) = 2
    /\ si = 1
    /\ src[2].path \in ReadablePaths
    /\ init.idir = "files"

\* the commands of a complete install, in order
ExpectedCmds ==
    << "conda config --add create_default_packages setuptools",
       "conda env create -f "
          \o (IF cfg.environment = None THEN "None" ELSE cfg.environment)
          \o " -p " \o installdir >>
    \o (IF cfg.post_install_cmd \in {None, ""} THEN <<>> ELSE <<cfg.post_install_cmd>>)

\* C5: the commands invoked are, in order and once each, conda config,
\* conda env create -f <environment> -p <installdir> and, if set, the
\* post_install_cmd: the history is always a prefix of that sequence, is the
\* whole of it when the install is complete, and is empty until extract_step,
\* configure_step and build_step are over.
C5_CommandOrder ==
    /\ Len(cmds) <= Len(ExpectedCmds)
    /\ \A i \in 1..Len(cmds) : cmds[i].cmd = ExpectedCmds[i]
    /\ pc = "done" => Len(cmds) = Len(ExpectedCmds)
    /\ pc \in PreInstall => cmds = <<>>

C5_Witness ==
    /\ pc = "done"
    /\ Len(cmds) = 3
    /\ cfg.environment = "environment.yml"
    /\ Len(init.src) > 0

\* C6 as stated: at every invocation of an external command, conda config
\* included, the process environment carries the overlay.
C6_OverlayBeforeEveryCommand ==
    \A i \in 1..Len(cmds) : CarriesOverlay(cmds[i].environ)

\* C6 as amended: conda config is invoked with the environment the install
\* started with; conda env create and the post_install_cmd are invoked with
\* the overlay applied, and from then on the environment keeps the overlay.
C6_OverlayBeforeCreateAndPost ==
    /\ \A i \in Sites("initialize_conda_env") : cmds[i].environ = init.environ
    /\ \A i \in 1..Len(cmds) :
          cmds[i].site # "initialize_conda_env" => CarriesOverlay(cmds[i].environ)
    /\ Len(cmds) >= 2 => CarriesOverlay(environ)

C6_Witness ==
    /\ Len(cmds) = 3
    /\ pc = "error"
    /\ init.environ.CONDA_ENV = "/old/env"

\* C7: with post_install_cmd unset (None or empty), post_install_step invokes
\* no command and leaves the process environment as it was at its entry, and
\* the install is complete.
C7_PostInstallNoOp ==
    (postEntry.entered /\ Missing(cfg.post_install_cmd)) =>
        /\ environ = postEntry.environ
        /\ Len(cmds) = postEntry.ncmds
        /\ pc = "done"
        /\ err = None

C7_Witness ==
    /\ postEntry.entered
    /\ cfg.post_install_cmd = ""

\* C8: without sources extract_step succeeds and changes nothing: the build
\* directory stays empty, the source list is as it was, the copy loop is
\* never entered and no error comes from extract_step.
C8_NoSourcesNoOp ==
    Len(init.src) = 0 =>
        /\ src = init.src
        /\ DOMAIN bfiles = {}
        /\ pc # "extract_copy"
        /\ err \notin {"copy2", "chmod", "IndexError"}

C8_Witness ==
    /\ Len(init.src) = 0
    /\ pc = "configure_step"

\* C9: every call of make_module_req_guess, in whatever lifecycle state,
\* returns the mapping with exactly the keys PATH, MANPATH and PKG_CONFIG_PATH
\* and the fixed lists of directories, and changes nothing else.
C9_ModuleReqGuessFixed ==
    [][ /\ lastGuess' # <<>> =>
             lastGuess' = << [PATH |-> <<"bin", "sbin">>,
                              MANPATH |-> <<"man", "share/man">>,
                              PKG_CONFIG_PATH |-> <<"lib/pkgconfig", "lib32/pkgconfig",
                                                    "lib64/pkgconfig", "share/pkgconfig">>] >>
        /\ lastGuess' # lastGuess =>
             UNCHANGED <<cfg, installdir, src, si, bfiles, idir, environ, cmds, pc,
                         postEntry, init, err>> ]_vars

C9_Witness ==
    /\ lastGuess # <<>>
    /\ pc = "error"
    /\ err = "run_cmd"

\* C10: each call of set_conda_env prepends one <installdir>/bin entry to the
\* PATH current at the call and sets CONDA_ENV and CONDA_DEFAULT_ENV to
\* <installdir>; a complete install leaves PATH as the initial PATH with one
\* such prefix when post_install_cmd is unset and two when it is set.
C10_PathPrependedPerCall ==
    /\ \A i \in 2..Len(cmds) :
          /\ cmds[i].environ.PATH = BinPrefix \o cmds[i - 1].environ.PATH
          /\ cmds[i].environ.CONDA_ENV = installdir
          /\ cmds[i].environ.CONDA_DEFAULT_ENV = installdir
    /\ pc = "done" =>
          /\ environ.PATH =
                IF Missing(cfg.post_install_cmd)
                THEN BinPrefix \o init.environ.PATH
                ELSE BinPrefix \o BinPrefix \o init.environ.PATH
          /\ environ.CONDA_ENV = installdir
          /\ environ.CONDA_DEFAULT_ENV = installdir

C10_Witness ==
    /\ pc = "done"
    /\ Truthy(cfg.post_install_cmd)
    /\ installdir = "/opt/env"
    /\ init.environ.PATH = "/opt/env/bin:/usr/bin"
    /\ environ.PATH = "/opt/env/bin:/opt/env/bin:/opt/env/bin:/usr/bin"

====
